---- MODULE Spec2Model ----
(***************************************************************************)
(* Model of scripts/fix_yuepin.py: the diacritic repositioner              *)
(* (move_diacritic_to_first_vowel), the region extractor                   *)
(* (split_js_object), the line-record parser and the reassembler/writer    *)
(* (main).                                                                 *)
(*                                                                         *)
(* A Python str is a sequence of code points.  A code point is written as  *)
(* a one-character string when it is ASCII ("a", "{", "\n") and by its     *)
(* Unicode name otherwise ("U+0301").                                      *)
(***************************************************************************)
EXTENDS Integers, Sequences, FiniteSets, TLC

VARIABLES
    file,           \* content of js/data.js on disk
    fix,            \* args.fix
    pc,             \* position of main(): start, split, loop, report, done, failed
    text,           \* text read from the file
    prefix,         \* split_js_object()[0]
    obj_text,       \* split_js_object()[1]
    suffix,         \* split_js_object()[2]
    lines,          \* obj_text.splitlines()
    new_obj_lines,  \* lines produced so far by the loop of main()
    changed_count,  \* changed_count of main()
    new_text,       \* new_text of main()
    out,            \* what main() printed
    err,            \* the RuntimeError raised, "" when none
    writes,         \* number of DATA_JS.write_text calls
    token,          \* argument of move_diacritic_to_first_vowel
    res1,           \* its result
    res2,           \* the result of applying it to res1.token
    tpc             \* position of the repositioner run: start, once, twice

vars == <<file, fix, pc, text, prefix, obj_text, suffix, lines, new_obj_lines,
          changed_count, new_text, out, err, writes, token, res1, res2, tpc>>

docvars == <<file, fix, pc, text, prefix, obj_text, suffix, lines,
             new_obj_lines, changed_count, new_text, out, err, writes>>

tokvars == <<token, res1, res2, tpc>>

(***************************************************************************)
(* Bounds                                                                  *)
(***************************************************************************)
\* longest token given to the repositioner
MaxLen == 3
\* largest number of segments a document is made of
MaxSegs == 4

(***************************************************************************)
(* Sequence helpers                                                        *)
(***************************************************************************)
RECURSIVE Flatten(_)
Flatten(ss) == IF ss = <<>> THEN <<>> ELSE Head(ss) \o Flatten(Tail(ss))

SeqsUpTo(S, n) == UNION {[1..k -> S] : k \in 0..n}

(***************************************************************************)
(* unicodedata                                                             *)
(***************************************************************************)
\* the code points tokens are drawn from: a, o, n, the combining acute
\* accent and cedilla, and the precomposed a-acute, o-acute, n-acute,
\* n-cedilla
CodePoints == {"a", "o", "n", "U+0301", "U+0327",
               "U+00E1", "U+00F3", "U+0144", "U+0146"}

\* unicodedata.category(c).startswith('M')
IsMark(c) == c \in {"U+0301", "U+0327"}

\* unicodedata.normalize('NFD', ch) of one code point
NFDChar(ch) ==
    CASE ch = "U+00E1" -> <<"a", "U+0301">>
      [] ch = "U+00F3" -> <<"o", "U+0301">>
      [] ch = "U+0144" -> <<"n", "U+0301">>
      [] ch = "U+0146" -> <<"n", "U+0327">>
      [] OTHER -> <<ch>>

\* unicodedata.normalize('NFD', s): no canonical reordering is needed, no
\* string the program normalises holds two marks in a row over CodePoints
NFD(s) == Flatten([i \in 1..Len(s) |-> NFDChar(s[i])])

\* the canonical composition of a starter and a mark, <<>> when there is none
ComposePair(b, m) ==
    CASE b = "a" /\ m = "U+0301" -> <<"U+00E1">>
      [] b = "o" /\ m = "U+0301" -> <<"U+00F3">>
      [] b = "n" /\ m = "U+0301" -> <<"U+0144">>
      [] b = "n" /\ m = "U+0327" -> <<"U+0146">>
      [] OTHER -> <<>>

RECURSIVE ComposeInto(_, _)
ComposeInto(acc, s) ==
    IF s = <<>> THEN acc
    ELSE IF acc # <<>> /\ ComposePair(acc[Len(acc)], Head(s)) # <<>>
         THEN ComposeInto(SubSeq(acc, 1, Len(acc) - 1)
                            \o ComposePair(acc[Len(acc)], Head(s)), Tail(s))
         ELSE ComposeInto(Append(acc, Head(s)), Tail(s))

\* unicodedata.normalize('NFC', s)
NFC(s) == ComposeInto(<<>>, NFD(s))

(***************************************************************************)
(* The diacritic repositioner                                              *)
(***************************************************************************)
VOWEL_BASES == {"a", "e", "i", "o", "u", "A", "E", "I", "O", "U"}

\* _decompose_char(ch): (base, combining_marks)
_decompose_char(ch) ==
    [base  |-> SelectSeq(NFDChar(ch), LAMBDA c : ~IsMark(c)),
     marks |-> SelectSeq(NFDChar(ch), LAMBDA c : IsMark(c))]

\* find_first_vowel_index(s); 0 stands for None (indices start at 1)
find_first_vowel_index(s) ==
    LET hits == {i \in 1..Len(s) :
                    /\ _decompose_char(s[i]).base # <<>>
                    /\ _decompose_char(s[i]).base[1] \in VOWEL_BASES}
    IN IF hits = {} THEN 0 ELSE CHOOSE i \in hits : \A j \in hits : i <= j

\* bases.append(base or ch)
BaseOrCh(ch) ==
    IF _decompose_char(ch).base # <<>> THEN _decompose_char(ch).base ELSE <<ch>>

\* the loop that finds source_index; 0 stands for None
SourceIndex(marks_list) ==
    LET hits == {i \in 1..Len(marks_list) : marks_list[i] # <<>>}
    IN IF hits = {} THEN 0 ELSE CHOOSE i \in hits : \A j \in hits : i <= j

\* mutant: the marks already on the target are not looked at
TargetMarked_never(marks_list, target) == FALSE

\* "if marks_list[target]: return token, False"
TargetMarked(marks_list, target) == marks_list[target] # <<>>

\* the element appended to new_chars for index i
NewChar(i, b, source_index, target, moving_marks) ==
    IF i = source_index THEN NFC(b)
    ELSE IF i = target THEN NFC(NFD(b) \o moving_marks)
    ELSE NFC(b)

\* move_diacritic_to_first_vowel(token): (new_token, changed)
move_diacritic_to_first_vowel(tok) ==
    LET bases == [i \in 1..Len(tok) |-> BaseOrCh(tok[i])]
        marks_list == [i \in 1..Len(tok) |-> _decompose_char(tok[i]).marks]
        source_index == SourceIndex(marks_list)
        target == find_first_vowel_index(tok)
    IN IF tok = <<>> THEN [token |-> tok, changed |-> FALSE]
       ELSE IF source_index = 0 THEN [token |-> tok, changed |-> FALSE]
       ELSE IF target = 0 THEN [token |-> tok, changed |-> FALSE]
       ELSE IF source_index = target THEN [token |-> tok, changed |-> FALSE]
       ELSE IF TargetMarked(marks_list, target)
            THEN [token |-> tok, changed |-> FALSE]
       ELSE [token |-> Flatten([i \in 1..Len(tok) |->
                         NewChar(i, bases[i], source_index, target,
                                 marks_list[source_index])]),
             changed |-> TRUE]

(***************************************************************************)
(* Text helpers                                                            *)
(***************************************************************************)
\* the characters \s matches in a str pattern, among those documents hold
Whitespace == {" ", "\t", "\n", "\r", "\f"}

\* the line boundaries of str.splitlines, among those documents hold
LineBoundaries == {"\n", "\r", "\f"}

\* s[i:] starts with the literal w (i counts from 1)
Lit(s, i, w) ==
    /\ i >= 1
    /\ i + Len(w) - 1 <= Len(s)
    /\ SubSeq(s, i, i + Len(w) - 1) = w

\* the position a greedy \s* that starts at i stops at
RECURSIVE SkipWs(_, _)
SkipWs(s, i) ==
    IF i <= Len(s) /\ s[i] \in Whitespace THEN SkipWs(s, i + 1) ELSE i

\* Path.read_text: text mode translates "\r\n" and "\r" to "\n"
RECURSIVE read_text(_)
read_text(c) ==
    IF c = <<>> THEN <<>>
    ELSE IF Head(c) = "\r"
         THEN IF Len(c) >= 2 /\ c[2] = "\n"
              THEN <<"\n">> \o read_text(Tail(Tail(c)))
              ELSE <<"\n">> \o read_text(Tail(c))
         ELSE <<Head(c)>> \o read_text(Tail(c))

\* str.splitlines: cur is the line being read
RECURSIVE SplitLinesFrom(_, _)
SplitLinesFrom(s, cur) ==
    IF s = <<>> THEN (IF cur = <<>> THEN <<>> ELSE <<cur>>)
    ELSE IF Head(s) = "\r" /\ Len(s) >= 2 /\ s[2] = "\n"
         THEN <<cur>> \o SplitLinesFrom(Tail(Tail(s)), <<>>)
    ELSE IF Head(s) \in LineBoundaries
         THEN <<cur>> \o SplitLinesFrom(Tail(s), <<>>)
    ELSE SplitLinesFrom(Tail(s), Append(cur, Head(s)))

splitlines(s) == SplitLinesFrom(s, <<>>)

\* str.split(sep) for a one-character sep
RECURSIVE SplitFrom(_, _, _)
SplitFrom(s, sep, cur) ==
    IF s = <<>> THEN <<cur>>
    ELSE IF Head(s) = sep THEN <<cur>> \o SplitFrom(Tail(s), sep, <<>>)
    ELSE SplitFrom(Tail(s), sep, Append(cur, Head(s)))

split(s, sep) == SplitFrom(s, sep, <<>>)

\* sep.join(parts)
RECURSIVE join(_, _)
join(sep, parts) ==
    IF parts = <<>> THEN <<>>
    ELSE IF Len(parts) = 1 THEN parts[1]
    ELSE parts[1] \o sep \o join(sep, Tail(parts))

(***************************************************************************)
(* The region extractor                                                    *)
(***************************************************************************)
\* re.match of var\s+yuepin\s*=\s*\{ at position s: the position of the
\* opening brace, 0 when there is no match at s
AnchorMatchAt(t, s) ==
    LET w1 == SkipWs(t, s + 3)
        w2 == SkipWs(t, w1 + 6)
        w3 == SkipWs(t, w2 + 1)
    IN IF /\ Lit(t, s, <<"v", "a", "r">>)
          /\ w1 > s + 3
          /\ Lit(t, w1, <<"y", "u", "e", "p", "i", "n">>)
          /\ Lit(t, w2, <<"=">>)
          /\ Lit(t, w3, <<"{">>)
       THEN w3 ELSE 0

\* re.search: m.start() + 1 of the leftmost match, 0 when m is None
AnchorSearch(t) ==
    LET hits == {s \in 1..Len(t) : AnchorMatchAt(t, s) # 0}
    IN IF hits = {} THEN 0 ELSE CHOOSE s \in hits : \A r \in hits : s <= r

\* mutant: the end of the text is taken as the end of the object when no
\* brace closes it (no else clause)
RECURSIVE FindEnd_no_raise(_, _, _)
FindEnd_no_raise(t, i, depth) ==
    IF i > Len(t) THEN Len(t)
    ELSE IF t[i] = "{" THEN FindEnd_no_raise(t, i + 1, depth + 1)
    ELSE IF t[i] = "}"
         THEN IF depth - 1 = 0 THEN i
              ELSE FindEnd_no_raise(t, i + 1, depth - 1)
    ELSE FindEnd_no_raise(t, i + 1, depth)

\* mutant: the first closing brace ends the object, whatever the depth
RECURSIVE FindEnd_first_close(_, _, _)
FindEnd_first_close(t, i, depth) ==
    IF i > Len(t) THEN 0
    ELSE IF t[i] = "}" THEN i
    ELSE FindEnd_first_close(t, i + 1, depth)

\* the while loop of split_js_object: the position of the matching closing
\* brace, 0 when the loop runs off the end (the else clause raises)
RECURSIVE FindEnd(_, _, _)
FindEnd(t, i, depth) ==
    IF i > Len(t) THEN 0
    ELSE IF t[i] = "{" THEN FindEnd(t, i + 1, depth + 1)
    ELSE IF t[i] = "}"
         THEN IF depth - 1 = 0 THEN i ELSE FindEnd(t, i + 1, depth - 1)
    ELSE FindEnd(t, i + 1, depth)

\* mutant: the object text is the interior of the braces only
ObjText_interior(t, mstart, mend, end) == SubSeq(t, mend + 1, end - 1)

\* text[m.start(): end+1]
ObjText(t, mstart, mend, end) == SubSeq(t, mstart, end)

\* split_js_object(text): err is "" when it returns
split_js_object(t) ==
    LET mstart == AnchorSearch(t)
        mend == AnchorMatchAt(t, mstart)
        end == FindEnd(t, mend + 1, 1)
    IN IF mstart = 0
       THEN [err |-> "Could not find var yuepin = { in file",
             prefix |-> <<>>, obj_text |-> <<>>, suffix |-> <<>>]
       ELSE IF end = 0
       THEN [err |-> "Could not find end of yuepin object",
             prefix |-> <<>>, obj_text |-> <<>>, suffix |-> <<>>]
       ELSE [err |-> "",
             prefix |-> SubSeq(t, 1, mstart - 1),
             obj_text |-> ObjText(t, mstart, mend, end),
             suffix |-> SubSeq(t, end + 1, Len(t))]

(***************************************************************************)
(* The line-record parser and process_value                                *)
(***************************************************************************)
\* the first position >= i that holds a double quote, Len(s) + 1 when none
RECURSIVE NextQuote(_, _)
NextQuote(s, i) ==
    IF i <= Len(s) /\ s[i] # "\"" THEN NextQuote(s, i + 1) ELSE i

\* re.match(r'(\s*"[^\"]+"\s*:\s*)"(.*)"(,?)$', line) for a line that holds
\* no "\n": the greedy (.*) ends at the last quote that only an optional
\* comma follows
RecordMatch(line) ==
    LET n  == Len(line)
        q1 == SkipWs(line, 1)
        q2 == NextQuote(line, q1 + 1)
        c  == SkipWs(line, q2 + 1)
        q3 == SkipWs(line, c + 1)
        q4 == IF n >= 1 /\ line[n] = "," THEN n - 1 ELSE n
    IN IF /\ Lit(line, q1, <<"\"">>)
          /\ q2 <= n
          /\ q2 > q1 + 1
          /\ Lit(line, c, <<":">>)
          /\ Lit(line, q3, <<"\"">>)
          /\ q4 > q3
          /\ line[q4] = "\""
       THEN [ok |-> TRUE,
             keypart |-> SubSeq(line, 1, q3 - 1),
             inner |-> SubSeq(line, q3 + 1, q4 - 1),
             comma |-> SubSeq(line, q4 + 1, n)]
       ELSE [ok |-> FALSE, keypart |-> <<>>, inner |-> <<>>, comma |-> <<>>]

\* process_value(value): (new value, changed)
process_value(value) ==
    LET parts == split(value, ",")
        r == move_diacritic_to_first_vowel(parts[2])
    IN IF Len(parts) < 2 THEN [value |-> value, changed |-> FALSE]
       ELSE IF r.changed
       THEN [value |-> join(<<",">>, [parts EXCEPT ![2] = r.token]),
             changed |-> TRUE]
       ELSE [value |-> value, changed |-> FALSE]

\* mutant: every matched record line is counted
CountStep_matched(matched, changed) == IF matched THEN 1 ELSE 0

\* what one iteration of the loop of main() adds to changed_count
CountStep(matched, changed) == IF matched /\ changed THEN 1 ELSE 0

\* one iteration of the loop of main(): the line appended to new_obj_lines
NewLine(line) ==
    LET m == RecordMatch(line)
        r == process_value(m.inner)
    IN IF ~m.ok THEN line
       ELSE IF r.changed THEN m.keypart \o <<"\"">> \o r.value \o <<"\"">> \o m.comma
       ELSE line

\* whether that iteration counts the line as changed
LineChanged(line) ==
    RecordMatch(line).ok /\ process_value(RecordMatch(line).inner).changed

\* mutant: the file is written whenever something changed
ShouldWrite_always(count, f) == count # 0

\* "if args.fix:" under "changed_count != 0"
ShouldWrite(count, f) == count # 0 /\ f

(***************************************************************************)
(* Documents                                                               *)
(***************************************************************************)
\* var yuepin = {<LF>
SegAnchor == <<"v", "a", "r", " ", "y", "u", "e", "p", "i", "n", " ", "=",
               " ", "{", "\n">>
\* var
SegVar == <<"v", "a", "r">>
\* <TAB>yuepin={
SegYuepin == <<"\t", "y", "u", "e", "p", "i", "n", "=", "{">>
SegOpen == <<"{">>
SegClose == <<"}">>
\* a form feed: a line boundary of splitlines that is not "\n"
SegFF == <<"\f">>
SegCRLF == <<"\r", "\n">>
\* "k": "x,<n-acute>a",<LF>   the mark sits on n, before the first vowel
SegRecMove == <<"\"", "k", "\"", ":", " ", "\"", "x", ",", "U+0144", "a",
                "\"", ",", "\n">>
\* "k": "<n-acute>a"<LF>      a value of one field
SegRecOne == <<"\"", "k", "\"", ":", " ", "\"", "U+0144", "a", "\"", "\n">>

Segments == {SegAnchor, SegVar, SegYuepin, SegOpen, SegClose, SegFF, SegCRLF,
             SegRecMove, SegRecOne}

\* the contents of js/data.js the runs start from
Documents == {Flatten(ss) : ss \in SeqsUpTo(Segments, MaxSegs)}

\* the tokens the repositioner is applied to
Tokens == SeqsUpTo(CodePoints, MaxLen)

NoResult == [token |-> <<>>, changed |-> FALSE]

(***************************************************************************)
(* main()                                                                  *)
(***************************************************************************)
Init ==
    /\ file \in Documents
    /\ fix \in BOOLEAN
    /\ pc = "start"
    /\ text = <<>>
    /\ prefix = <<>>
    /\ obj_text = <<>>
    /\ suffix = <<>>
    /\ lines = <<>>
    /\ new_obj_lines = <<>>
    /\ changed_count = 0
    /\ new_text = <<>>
    /\ out = <<>>
    /\ err = ""
    /\ writes = 0
    /\ token = <<>>
    /\ res1 = NoResult
    /\ res2 = NoResult
    /\ tpc = "off"

\* text = DATA_JS.read_text(encoding='utf-8')
ReadText ==
    /\ pc = "start"
    /\ text' = read_text(file)
    /\ pc' = "split"
    /\ UNCHANGED <<file, fix, prefix, obj_text, suffix, lines, new_obj_lines,
                   changed_count, new_text, out, err, writes, tokvars>>

\* prefix, obj_text, suffix = split_js_object(text), and the splitlines of
\* the for statement
SplitOk ==
    /\ pc = "split"
    /\ split_js_object(text).err = ""
    /\ prefix' = split_js_object(text).prefix
    /\ obj_text' = split_js_object(text).obj_text
    /\ suffix' = split_js_object(text).suffix
    /\ lines' = splitlines(split_js_object(text).obj_text)
    /\ pc' = "loop"
    /\ UNCHANGED <<file, fix, text, new_obj_lines, changed_count, new_text,
                   out, err, writes, tokvars>>

\* split_js_object raises: the run ends with the traceback
SplitRaises ==
    /\ pc = "split"
    /\ split_js_object(text).err # ""
    /\ err' = split_js_object(text).err
    /\ pc' = "failed"
    /\ UNCHANGED <<file, fix, text, prefix, obj_text, suffix, lines,
                   new_obj_lines, changed_count, new_text, out, writes,
                   tokvars>>

\* one iteration of "for line in obj_text.splitlines()"
ProcessLine ==
    /\ pc = "loop"
    /\ Len(new_obj_lines) < Len(lines)
    /\ LET line == lines[Len(new_obj_lines) + 1]
       IN /\ new_obj_lines' = Append(new_obj_lines, NewLine(line))
          /\ changed_count' = changed_count
                               + CountStep(RecordMatch(line).ok,
                                           process_value(RecordMatch(line).inner).changed)
    /\ UNCHANGED <<file, fix, pc, text, prefix, obj_text, suffix, lines,
                   new_text, out, err, writes, tokvars>>

\* new_text = prefix + '\n'.join(new_obj_lines) + suffix
Reassembled == prefix \o join(<<"\n">>, new_obj_lines) \o suffix

\* the loop is over and changed_count == 0
ReportNoChanges ==
    /\ pc = "loop"
    /\ Len(new_obj_lines) = Len(lines)
    /\ changed_count = 0
    /\ new_text' = Reassembled
    /\ out' = << <<"No changes necessary", 0>> >>
    /\ pc' = "done"
    /\ UNCHANGED <<file, fix, text, prefix, obj_text, suffix, lines,
                   new_obj_lines, changed_count, err, writes, tokvars>>

\* the loop is over, changed_count != 0 and the file is not written
ReportDryRun ==
    /\ pc = "loop"
    /\ Len(new_obj_lines) = Len(lines)
    /\ changed_count # 0
    /\ ~ShouldWrite(changed_count, fix)
    /\ new_text' = Reassembled
    /\ out' = << <<"Would change entries, dry-run", changed_count>> >>
    /\ pc' = "done"
    /\ UNCHANGED <<file, fix, text, prefix, obj_text, suffix, lines,
                   new_obj_lines, changed_count, err, writes, tokvars>>

\* the loop is over, changed_count != 0 and DATA_JS.write_text(new_text)
ReportAndWrite ==
    /\ pc = "loop"
    /\ Len(new_obj_lines) = Len(lines)
    /\ changed_count # 0
    /\ ShouldWrite(changed_count, fix)
    /\ new_text' = Reassembled
    /\ file' = Reassembled
    /\ writes' = writes + 1
    /\ out' = << <<"Would change entries, writing file", changed_count>>,
                 <<"Wrote", 0>> >>
    /\ pc' = "done"
    /\ UNCHANGED <<fix, text, prefix, obj_text, suffix, lines,
                   new_obj_lines, changed_count, err, tokvars>>

Next ==
    \/ ReadText
    \/ SplitOk
    \/ SplitRaises
    \/ ProcessLine
    \/ ReportNoChanges
    \/ ReportDryRun
    \/ ReportAndWrite

Spec == Init /\ [][Next]_vars

(***************************************************************************)
(* The repositioner applied to a token, then to its own result             *)
(***************************************************************************)
InitTok ==
    /\ token \in Tokens
    /\ res1 = NoResult
    /\ res2 = NoResult
    /\ tpc = "start"
    /\ file = <<>>
    /\ fix = FALSE
    /\ pc = "off"
    /\ text = <<>>
    /\ prefix = <<>>
    /\ obj_text = <<>>
    /\ suffix = <<>>
    /\ lines = <<>>
    /\ new_obj_lines = <<>>
    /\ changed_count = 0
    /\ new_text = <<>>
    /\ out = <<>>
    /\ err = ""
    /\ writes = 0

Apply ==
    /\ tpc = "start"
    /\ res1' = move_diacritic_to_first_vowel(token)
    /\ tpc' = "once"
    /\ UNCHANGED <<token, res2, docvars>>

ApplyAgain ==
    /\ tpc = "once"
    /\ res2' = move_diacritic_to_first_vowel(res1.token)
    /\ tpc' = "twice"
    /\ UNCHANGED <<token, res1, docvars>>

NextTok == Apply \/ ApplyAgain

SpecTok == InitTok /\ [][NextTok]_vars

(***************************************************************************)
(* Vocabulary of the properties                                            *)
(***************************************************************************)
\* the combining marks a character carries, and the letter that carries them
MarksOf(ch) == SelectSeq(NFDChar(ch), LAMBDA c : IsMark(c))
BaseOf(ch) == SelectSeq(NFDChar(ch), LAMBDA c : ~IsMark(c))

IsVowelChar(ch) ==
    \E v \in {"a", "e", "i", "o", "u", "A", "E", "I", "O", "U"} :
        BaseOf(ch) = <<v>>

\* the first mark-bearing character and the first vowel of a token, 0 if none
FirstMarked(tok) ==
    IF \A i \in 1..Len(tok) : MarksOf(tok[i]) = <<>> THEN 0
    ELSE CHOOSE i \in 1..Len(tok) :
            /\ MarksOf(tok[i]) # <<>>
            /\ \A j \in 1..(i - 1) : MarksOf(tok[j]) = <<>>

FirstVowel(tok) ==
    IF \A i \in 1..Len(tok) : ~IsVowelChar(tok[i]) THEN 0
    ELSE CHOOSE i \in 1..Len(tok) :
            /\ IsVowelChar(tok[i])
            /\ \A j \in 1..(i - 1) : ~IsVowelChar(tok[j])

\* the ways to cut s into n consecutive pieces
RECURSIVE Splits(_, _)
Splits(s, n) ==
    IF n = 0 THEN (IF s = <<>> THEN {<<>>} ELSE {})
    ELSE UNION {{<<SubSeq(s, 1, k)>> \o r :
                    r \in Splits(SubSeq(s, k + 1, Len(s)), n - 1)} :
                k \in 0..Len(s)}

\* the letters of a string without their marks, and its marks
Letters(s) == SelectSeq(NFD(s), LAMBDA c : ~IsMark(c))
MarksIn(s) == SelectSeq(NFD(s), LAMBDA c : IsMark(c))

\* the anchor var\s+yuepin\s*=\s*\{ occupies t[s..b]
AllWs(t, i, j) == \A k \in i..j : t[k] \in {" ", "\t", "\n", "\r", "\f"}

IsAnchorSpan(t, s, b) ==
    \E y \in {k \in (s + 4)..b : t[k] = "y"} :
    \E q \in {k \in (y + 6)..b : t[k] = "="} :
        /\ SubSeq(t, s, s + 2) = <<"v", "a", "r">>
        /\ AllWs(t, s + 3, y - 1)
        /\ y + 5 <= Len(t)
        /\ SubSeq(t, y, y + 5) = <<"y", "u", "e", "p", "i", "n">>
        /\ AllWs(t, y + 6, q - 1)
        /\ AllWs(t, q + 1, b - 1)
        /\ b > q
        /\ t[b] = "{"

AnchorSpans(t) ==
    {sb \in {k \in 1..Len(t) : t[k] = "v"} \X {k \in 1..Len(t) : t[k] = "{"} :
        IsAnchorSpan(t, sb[1], sb[2])}

HasAnchor(t) == AnchorSpans(t) # {}

\* the leftmost occurrence of the anchor
FirstAnchor(t) ==
    CHOOSE sb \in AnchorSpans(t) : \A o \in AnchorSpans(t) : sb[1] <= o[1]

\* the brace depth after position p, counted from depth 1 at position from
Depth(t, from, p) ==
    1 + Cardinality({k \in from..p : t[k] = "{"})
      - Cardinality({k \in from..p : t[k] = "}"})

\* the part of new_text between prefix and suffix
NewBody == SubSeq(new_text, Len(prefix) + 1, Len(new_text) - Len(suffix))

IsBoundary(c) == c \in {"\n", "\r", "\f"}

(***************************************************************************)
(* Properties of the repositioner (checked under SpecTok)                  *)
(***************************************************************************)
\* C1: applying the repositioner to the token a first application returned
\* returns that same token with changed = FALSE
C1_Idempotent ==
    tpc = "twice" => (res2.token = res1.token /\ res2.changed = FALSE)

\* C2: when the repositioner changes a token, every character other than
\* the first mark-bearing one and the first vowel keeps exactly the marks it
\* carried in the input
C2_OtherMarksKept ==
    (tpc = "once" /\ res1.changed) =>
        \E pieces \in Splits(res1.token, Len(token)) :
            \A i \in 1..Len(token) :
                (i # FirstMarked(token) /\ i # FirstVowel(token)) =>
                    /\ Letters(pieces[i]) = BaseOf(token[i])
                    /\ MarksIn(pieces[i]) = MarksOf(token[i])

\* C3: when the repositioner returns changed = TRUE, the output has the
\* input's base letters in the same order, the source character is its bare
\* base letter without any mark, and the target carries exactly the marks
\* the source carried (moved, neither duplicated onto another character
\* nor lost)
C3_MarksMoved ==
    (tpc = "once" /\ res1.changed) =>
        /\ Letters(res1.token) = Letters(token)
        /\ \E pieces \in Splits(res1.token, Len(token)) :
            /\ \A i \in 1..Len(token) : Letters(pieces[i]) = BaseOf(token[i])
            /\ MarksIn(pieces[FirstMarked(token)]) = <<>>
            /\ MarksIn(pieces[FirstVowel(token)])
                  = MarksOf(token[FirstMarked(token)])
            /\ \A i \in 1..Len(token) :
                  (i # FirstMarked(token) /\ i # FirstVowel(token)) =>
                      MarksIn(pieces[i]) \in {<<>>, MarksOf(token[i])}

C5_OnlyTokensDiffer ==
    pc = "done" =>
        /\ Len(new_text) >= Len(prefix) + Len(suffix)
        /\ SubSeq(new_text, 1, Len(prefix)) = SubSeq(text, 1, Len(prefix))
        /\ SubSeq(new_text, Len(new_text) - Len(suffix) + 1, Len(new_text))
              = SubSeq(text, Len(text) - Len(suffix) + 1, Len(text))
        /\ SelectSeq(NewBody, IsBoundary) = SelectSeq(obj_text, IsBoundary)
        /\ Len(splitlines(NewBody)) = Len(lines)
        /\ \A i \in 1..Len(lines) :
              LET old == lines[i]
                  new == splitlines(NewBody)[i]
              IN \/ new = old
                 \/ /\ LineChanged(old)
                    /\ RecordMatch(new).ok
                    /\ RecordMatch(new).keypart = RecordMatch(old).keypart
                    /\ RecordMatch(new).comma = RecordMatch(old).comma
                    /\ LET po == split(RecordMatch(old).inner, ",")
                           pn == split(RecordMatch(new).inner, ",")
                       IN /\ Len(pn) = Len(po)
                          /\ \A k \in 1..Len(po) : k # 2 => pn[k] = po[k]

\* C6: when split_js_object returns, prefix + object_text + suffix is the
\* input text
C6_RoundTrip ==
    pc \in {"loop", "done"} => prefix \o obj_text \o suffix = text

\* C6 witness: the extractor returned with text on both sides of the object
C6_Witness ==
    /\ pc = "loop"
    /\ prefix # <<>>
    /\ suffix # <<>>
    /\ prefix \o obj_text \o suffix = text

\* C7: the file keeps its content unless the run is in apply mode and the
\* extractor succeeded; a failing run ends without a write; a write happens
\* once, after every line has been processed, and writes the whole
\* reassembled text
C7_WriteOnlyOnApply ==
    [][/\ (file' # file \/ writes' # writes) =>
            /\ fix
            /\ err = ""
            /\ pc = "loop"
            /\ Len(new_obj_lines) = Len(lines)
            /\ writes = 0
            /\ writes' = 1
            /\ pc' = "done"
            /\ file' = prefix \o join(<<"\n">>, new_obj_lines) \o suffix
       /\ pc' = "failed" => (writes' = 0 /\ file' = file)]_vars

\* C7 witness: a run in apply mode has written the reassembled text
C7_Witness ==
    /\ pc = "done"
    /\ fix
    /\ writes = 1
    /\ file = new_text
    /\ file # text

\* C8: "pattern not found" is raised exactly when the text holds no match of
\* the anchor, "unbalanced" exactly when it does and the depth never returns
\* to 0 after the anchor's opening brace; otherwise a triple is returned
C8_Errors ==
    pc \in {"loop", "done", "failed"} =>
        /\ err = "Could not find var yuepin = { in file" <=> ~HasAnchor(text)
        /\ err = "Could not find end of yuepin object" <=>
              /\ HasAnchor(text)
              /\ \A p \in (FirstAnchor(text)[2] + 1)..Len(text) :
                    Depth(text, FirstAnchor(text)[2] + 1, p) # 0
        /\ err = "" <=> pc # "failed"
        /\ err \in {"", "Could not find var yuepin = { in file",
                    "Could not find end of yuepin object"}

\* C8 witness: the anchor is there and the run failed on the braces
C8_Witness ==
    /\ pc = "failed"
    /\ HasAnchor(text)
    /\ err = "Could not find end of yuepin object"
    /\ \E p \in 1..Len(text) : text[p] = "}"

\* C9: the object body ends at the first position after the anchor where
\* the depth reaches 0, the depth is at least 1 at every position scanned
\* before it, and the suffix starts right after it
C9_MatchingClose ==
    pc \in {"loop", "done"} =>
        LET from == FirstAnchor(text)[2] + 1
            end == Len(prefix) + Len(obj_text)
        IN /\ Len(prefix) = FirstAnchor(text)[1] - 1
           /\ end >= from
           /\ end <= Len(text)
           /\ text[end] = "}"
           /\ Depth(text, from, end) = 0
           /\ \A q \in from..(end - 1) : Depth(text, from, q) >= 1
           /\ obj_text = SubSeq(text, FirstAnchor(text)[1], end)
           /\ suffix = SubSeq(text, end + 1, Len(text))

\* C9 witness: the object returned holds a nested pair of braces before the
\* closing brace it ends at
C9_Witness ==
    /\ pc = "loop"
    /\ \E q \in 1..(Len(obj_text) - 1) : obj_text[q] = "}"
    /\ obj_text[Len(obj_text)] = "}"
    /\ suffix = SubSeq(text, Len(prefix) + Len(obj_text) + 1, Len(text))

\* C10: the reported count is the number of record lines the repositioner
\* changed and the number of lines of the object body that differ between
\* the original and the reassembled document; "No changes necessary" is
\* reported exactly when it is 0
C10_Count ==
    pc = "done" =>
        /\ changed_count = Cardinality({i \in 1..Len(lines) :
               /\ RecordMatch(lines[i]).ok
               /\ Len(split(RecordMatch(lines[i]).inner, ",")) >= 2
               /\ move_diacritic_to_first_vowel(
                      split(RecordMatch(lines[i]).inner, ",")[2]).changed})
        /\ Len(splitlines(NewBody)) = Len(splitlines(obj_text))
        /\ changed_count = Cardinality({i \in 1..Len(splitlines(obj_text)) :
               splitlines(NewBody)[i] # splitlines(obj_text)[i]})
        /\ out[1][1] = "No changes necessary" <=> changed_count = 0
        /\ out[1][2] = changed_count

\* C10 witness: a run counted a changed record line and left another
\* record line as it was
C10_Witness ==
    /\ pc = "done"
    /\ changed_count >= 1
    /\ out[1][2] = changed_count
    /\ \E i \in 1..Len(lines) :
          RecordMatch(lines[i]).ok /\ new_obj_lines[i] = lines[i]

====
